---- MODULE Spec2Model ----
(***************************************************************************)
(* MINDSCAN: microcontroller sketches that sample one analog EEG channel   *)
(* and stream it to a host.                                                *)
(*                                                                         *)
(* The sketches modelled here:                                             *)
(*   - the drift-compensated scheduler (part_002 lines 118-150): setup,    *)
(*     loop;                                                               *)
(*   - the BLE notifier (part_002 lines 38-116): bleSetup, the statements  *)
(*     of its loop, and the onConnect / onDisconnect callbacks, which the  *)
(*     BLE stack runs on its own task;                                     *)
(*   - the fixed-interval busy-wait loop (part_001): p1Setup, p1Enter,     *)
(*     p1Poll;                                                             *)
(*   - the plain text-line loops (part_000, MCU/XIAO/XIAO.ino);            *)
(*   - the timestamped text-line loop (part_002 lines 18-36).              *)
(* Each sketch is a program of its own, so each has its own specification  *)
(* over the shared variable tuple; the other sketch's variables stay put.  *)
(*                                                                         *)
(* `unsigned long` is modelled at a reduced width of WordBits bits: all    *)
(* arithmetic on micros() and nextSampleTime is taken modulo Modulus, and  *)
(* comparisons are the plain unsigned comparisons of the source.           *)
(***************************************************************************)
EXTENDS Integers, Sequences, FiniteSets, TLC

----------------------------------------------------------------------------
(* Bounds of the model *)

\* width of `unsigned long` in the model (32 on the target)
WordBits == 10

\* the run is followed until MaxPastWrap microseconds after the first
\* wraparound of the clock
MaxPastWrap == 800

\* cap on the number of analogRead calls of one run
MaxReads == 14

\* cap on the number of notifications of one run of the BLE sketch
MaxNotify == 3

\* the timestamped sketch is followed until MaxMillisPastWrap milliseconds
\* after the first wraparound of millis()
MaxMillisPastWrap == 3

Modulus == 2 ^ WordBits

MaxRealTime == Modulus + MaxPastWrap

\* microseconds that can pass between two consecutive reads of micros()
Deltas == {0, 100, 200, 300, 500}

\* values analogRead(4) can hand back (zero, the first value with a high
\* byte, the top of the 10-bit ADC range, and the top of the 16-bit range a
\* frame can carry)
Samples == {0, 256, 1023, 65535}

\* const double samplingFrequency = 5000.0
ShippedFrequency == 5000

\* sampling frequencies a build can be configured with (Hz)
Frequencies == {ShippedFrequency, 2000, 2000000, 0, -5000}

\* values analogRead(A0) hands to the BLE sketch
BleSamples == {0, 7, 1023, 4095}

\* part_001: const double samplingFrequency = 5000.0
P1Frequency == 5000

\* values analogRead(4) hands to part_001
P1Samples == {0, 1023}

\* values analogRead hands to part_000 and to XIAO.ino (12-bit ADC)
TextSamples == {0, 4095}

\* timestamped sketch: const unsigned long sampleInterval = 1
sampleInterval == 1

\* values analogRead(eegPin) hands to the timestamped sketch
TsSamples == {0, 1023}

\* microseconds a statement of the timestamped sketch can take
TsDeltas == {0, 500}

\* the last microsecond the timestamped sketch is followed to
MaxTsReal == (Modulus + MaxMillisPastWrap) * 1000

----------------------------------------------------------------------------
(* State *)

VARIABLES
  pc,                \* "setup" before setup() has run, "loop" afterwards
  samplingFrequency, \* const double samplingFrequency
  samplingInterval,  \* unsigned long samplingInterval
  nextSampleTime,    \* unsigned long nextSampleTime
  micros,            \* the free-running microsecond counter micros() reads
  currentTime,       \* local of loop(): the last value read from micros()
  value,             \* local of loop(): the last uint16_t sample
  lastFrame,         \* bytes the last loop() iteration wrote to Serial
  written,           \* number of bytes written to Serial so far
  reads,             \* number of analogRead calls so far
  \* history of the run, read by the properties only
  realTime,          \* microseconds since power-on, not wrapped
  deadline,          \* nextSampleTime as the last iteration found it
  action,            \* outcome of the last iteration: "none", "due", "not due"
  resynced,          \* some iteration took the drift branch
  firstDeadline,     \* nextSampleTime as setup() initialised it
  emitTimes          \* realTime of the last three emissions, oldest first

schedVars == <<pc, samplingFrequency, samplingInterval, nextSampleTime, micros,
               currentTime, value, lastFrame, written, reads, realTime,
               deadline, action, resynced, firstDeadline, emitTimes>>

VARIABLES
  blePc,             \* position of the BLE sketch: "setup", then a line of loop()
  deviceConnected,   \* bool deviceConnected
  analogValue,       \* uint32_t analogValue
  valueStr,          \* char valueStr[8], up to its NUL
  charValue,         \* the value held by pCharacteristic
  notified,          \* payload of the last notification, <<>> before the first
  notifies,          \* number of notify() calls so far
  bleReads,          \* number of analogRead(A0) calls so far
  bleLog             \* the last line the BLE sketch printed on Serial

bleVars == <<blePc, deviceConnected, analogValue, valueStr, charValue, notified,
             notifies, bleReads, bleLog>>

VARIABLES
  p1Pc,              \* part_001: "setup", "enter" (loop() called), "wait"
  p1Interval,        \* unsigned long samplingInterval
  startTime,         \* unsigned long startTime
  p1Micros,          \* the microsecond counter micros() reads
  p1Value,           \* double value, in hundredths
  p1Frame,           \* the last line written to Serial, as ASCII codes
  p1Emitted,         \* number of samples printed so far
  \* history of the run, read by the properties only
  p1Real,            \* microseconds since power-on, not wrapped
  p1S0,              \* p1Real when loop() captured startTime
  p1EmitReal,        \* p1Real of the last emission
  p1Overrun,         \* the most an iteration has overrun the interval by
  p1Waiting,         \* the current busy-wait has found the interval not over
  p1Waited,          \* the busy-wait before the last emission had to wait
  p1Gap              \* microseconds between the last two reads of micros()

p1Vars == <<p1Pc, p1Interval, startTime, p1Micros, p1Value, p1Frame, p1Emitted,
            p1Real, p1S0, p1EmitReal, p1Overrun, p1Waiting, p1Waited, p1Gap>>

VARIABLES
  p0Pc,              \* part_000: "setup" or "loop"
  p0Value,           \* int analogValue
  p0Frame,           \* the last line written to Serial
  xPc,               \* XIAO.ino: "setup" or "loop"
  eegValue,          \* int eegValue
  xFrame             \* the last line written to Serial

textVars == <<p0Pc, p0Value, p0Frame, xPc, eegValue, xFrame>>

VARIABLES
  tsPc,              \* timestamped sketch: "setup", then a line of loop()
  timestamp,         \* unsigned long timestamp
  tsValue,           \* int analogValue
  tsFrame,           \* the last line written to Serial
  tsReal,            \* microseconds since power-on, not wrapped
  \* history of the run, read by the properties only
  tsOrder,           \* what the current iteration of loop() has done so far
  tsLastStamp,       \* the timestamp printed in the last frame, -1 before it
  tsPrevStamp,       \* the timestamp printed in the frame before, -1 before it
  tsWrapped          \* millis() had wrapped when timestamp was last read

tsVars == <<tsPc, timestamp, tsValue, tsFrame, tsReal, tsOrder, tsLastStamp,
            tsPrevStamp, tsWrapped>>

vars == <<schedVars, bleVars, p1Vars, textVars, tsVars>>

----------------------------------------------------------------------------
(* Pure helpers *)

\* conversion of analogRead's int to uint16_t
ToUint16(raw) == raw % 65536

\* value & 0xFF
LowByte(v) == v % 256

\* (value >> 8) & 0xFF
HighByte(v) == (v \div 256) % 256

\* mutant of EncodeBinary: the two bytes written high byte first
EncodeBigEndian(v) == <<HighByte(v), LowByte(v)>>

\* the two Serial.write calls of one emission, in order
EncodeBinary(v) == <<LowByte(v), HighByte(v)>>

\* 1000000 / samplingFrequency converted to unsigned long, for a positive
\* frequency: the conversion truncates toward zero (the quotients of the
\* positive Frequencies all fit the word)
IntervalOf(freq) == 1000000 \div freq

\* a frequency <= 0 gives a quotient of +inf or a negative double; its
\* conversion to unsigned long is undefined, and builds differ in what they
\* store (saturation to 0 or to the maximum, or a wrapped value)
UndefinedIntervals(freq) ==
  IF freq = 0 THEN {0, Modulus - 1}
  ELSE {0, Modulus - 1, (Modulus - ((1000000 \div (-freq)) % Modulus)) % Modulus}

\* sprintf(valueStr, "%u", analogValue): the decimal digits, most significant
\* first, as ASCII codes (the terminating NUL is not part of the string)
RECURSIVE Decimal(_)
Decimal(n) ==
  IF n < 10 THEN <<48 + n>> ELSE Append(Decimal(n \div 10), 48 + (n % 10))

\* the line terminator of println: CR LF
Newline == <<13, 10>>

\* Print::print(long) in base 10: a minus sign for a negative number, then
\* the decimal digits
PrintInt(n) == IF n < 0 THEN <<45>> \o Decimal(-n) ELSE Decimal(n)

\* double value = analogRead(4): the int converted to double, held here in
\* hundredths
ToDouble(raw) == raw * 100

\* Print::print(double), which prints two fractional digits: the integer
\* part, a decimal point, and the two digits of the (rounded) fraction
PrintDouble(h) ==
  (IF h < 0 THEN <<45>> ELSE <<>>)
    \o LET a == IF h < 0 THEN -h ELSE h
       IN Decimal(a \div 100) \o <<46, 48 + ((a % 100) \div 10), 48 + (a % 10)>>

\* millis(): whole milliseconds since power-on, as an unsigned long
Millis(us) == (us \div 1000) % Modulus

\* mutant of DelayTimes: delay() returns at once
DelayTimesNone(ms) == {0}

\* microseconds delay(ms) can take: the ms milliseconds asked for, or longer
DelayTimes(ms) == {ms * 1000, ms * 1000 + 500}

\* mutant of WaitOver: the clock is compared without subtracting startTime
WaitOverNoStart(now, start, interval) == now >= interval

\* mutant of WaitOver: the test written as micros() >= startTime + interval,
\* without the unsigned subtraction
WaitOverPlain(now, start, interval) == now >= start + interval

\* !(micros() - startTime < samplingInterval), the subtraction being unsigned
WaitOver(now, start, interval) == ((now - start) % Modulus) >= interval

\* mutant of AdvanceStart: startTime moves on by two intervals
AdvanceStartTwice(start, interval) == (start + 2 * interval) % Modulus

\* startTime += samplingInterval
AdvanceStart(start, interval) == (start + interval) % Modulus

\* mutant of IsDue: a poll exactly at the deadline is held back
IsDueStrict(now, nst) == now > nst

\* currentTime >= nextSampleTime
IsDue(now, nst) == now >= nst

\* mutant of NeedsResync: the drift branch is taken only when the clock is
\* more than one further interval past the advanced deadline
NeedsResyncLate(now, advanced) == now > advanced + samplingInterval

\* currentTime > nextSampleTime, evaluated after the advance
NeedsResync(now, advanced) == now > advanced

\* mutant of Advance: the deadline is advanced by two intervals
AdvanceTwice(nst, interval) == (nst + 2 * interval) % Modulus

\* nextSampleTime += samplingInterval
Advance(nst, interval) == (nst + interval) % Modulus

\* mutant of Resync: the deadline is reset to the clock reading itself
ResyncToNow(now, interval) == now

\* nextSampleTime = currentTime + samplingInterval
Resync(now, interval) == (now + interval) % Modulus

----------------------------------------------------------------------------
(* Drift-compensated scheduler *)

\* the three newest entries of a history
LastThree(s) == IF Len(s) > 3 THEN Tail(s) ELSE s

SchedInit(freqs) ==
  /\ pc = "setup"
  /\ samplingFrequency \in freqs
  /\ samplingInterval = 0
  /\ nextSampleTime = 0
  /\ micros = 0
  /\ currentTime = 0
  /\ value = 0
  /\ lastFrame = <<>>
  /\ written = 0
  /\ reads = 0
  /\ realTime = 0
  /\ deadline = 0
  /\ action = "none"
  /\ resynced = FALSE
  /\ firstDeadline = 0
  /\ emitTimes = <<>>

BleInit ==
  /\ blePc = "setup"
  /\ deviceConnected = FALSE
  /\ analogValue = 0
  /\ valueStr = <<>>
  /\ charValue = <<>>
  /\ notified = <<>>
  /\ notifies = 0
  /\ bleReads = 0
  /\ bleLog = <<>>

P1Init ==
  /\ p1Pc = "setup"
  /\ p1Interval = 0
  /\ startTime = 0
  /\ p1Micros = 0
  /\ p1Value = 0
  /\ p1Frame = <<>>
  /\ p1Emitted = 0
  /\ p1Real = 0
  /\ p1S0 = 0
  /\ p1EmitReal = 0
  /\ p1Overrun = 0
  /\ p1Waiting = FALSE
  /\ p1Waited = FALSE
  /\ p1Gap = 0

TextInit ==
  /\ p0Pc = "setup"
  /\ p0Value = 0
  /\ p0Frame = <<>>
  /\ xPc = "setup"
  /\ eegValue = 0
  /\ xFrame = <<>>

\* the sketches as shipped
TsInit ==
  /\ tsPc = "setup"
  /\ timestamp = 0
  /\ tsValue = 0
  /\ tsFrame = <<>>
  /\ tsReal = 0
  /\ tsOrder = <<>>
  /\ tsLastStamp = -1
  /\ tsPrevStamp = -1
  /\ tsWrapped = FALSE

Init ==
  SchedInit({ShippedFrequency}) /\ BleInit /\ P1Init /\ TextInit /\ TsInit

\* the scheduler built with any of the configurations
InitConfig ==
  SchedInit(Frequencies) /\ BleInit /\ P1Init /\ TextInit /\ TsInit

\* setup(): compute the interval, take the first deadline from the clock
setup ==
  /\ pc = "setup"
  /\ \E delta \in Deltas :
       /\ micros' = (micros + delta) % Modulus
       /\ realTime' = realTime + delta
       /\ nextSampleTime' = (micros + delta) % Modulus
       /\ firstDeadline' = (micros + delta) % Modulus
  /\ IF samplingFrequency > 0
       THEN samplingInterval' = IntervalOf(samplingFrequency)
       ELSE samplingInterval' \in UndefinedIntervals(samplingFrequency)
  /\ pc' = "loop"
  /\ UNCHANGED <<samplingFrequency, currentTime, value, lastFrame, written,
                 reads, deadline, action, resynced, emitTimes>>
  /\ UNCHANGED <<bleVars, p1Vars, textVars, tsVars>>

\* one iteration of loop(): delta microseconds after the previous clock read
loop ==
  /\ pc = "loop"
  /\ reads < MaxReads
  /\ \E delta \in Deltas, raw \in Samples :
       LET now == (micros + delta) % Modulus
           advanced == Advance(nextSampleTime, samplingInterval)
       IN /\ realTime + delta <= MaxRealTime
          /\ micros' = now
          /\ realTime' = realTime + delta
          /\ currentTime' = now
          /\ deadline' = nextSampleTime
          /\ IF IsDue(now, nextSampleTime)
               THEN /\ value' = ToUint16(raw)
                    /\ lastFrame' = EncodeBinary(ToUint16(raw))
                    /\ written' = written + 2
                    /\ reads' = reads + 1
                    /\ nextSampleTime' =
                         IF NeedsResync(now, advanced)
                           THEN Resync(now, samplingInterval)
                           ELSE advanced
                    /\ resynced' = (resynced \/ NeedsResync(now, advanced))
                    /\ action' = "due"
                    /\ emitTimes' = LastThree(Append(emitTimes, realTime + delta))
               ELSE /\ lastFrame' = <<>>
                    /\ action' = "not due"
                    /\ UNCHANGED <<value, written, reads, nextSampleTime,
                                   resynced, emitTimes>>
  /\ UNCHANGED <<pc, samplingFrequency, samplingInterval, firstDeadline>>
  /\ UNCHANGED <<bleVars, p1Vars, textVars, tsVars>>

Next == setup \/ loop

Spec == Init /\ [][Next]_vars

SpecConfig == InitConfig /\ [][Next]_vars

----------------------------------------------------------------------------
(* BLE notifier.  loop() runs on the Arduino task and the two callbacks on   *)
(* the BLE stack's task, so a callback can run between any two statements   *)
(* of loop(); deviceConnected is a plain bool shared by both.               *)

\* setup(): create server, service and characteristic, start advertising
bleSetup ==
  /\ blePc = "setup"
  /\ blePc' = "check"
  /\ bleLog' = <<"Waiting for a client connection...">>
  /\ UNCHANGED <<deviceConnected, analogValue, valueStr, charValue, notified,
                 notifies, bleReads>>
  /\ UNCHANGED <<schedVars, p1Vars, textVars, tsVars>>

\* MyServerCallbacks::onConnect
onConnect ==
  /\ blePc # "setup"
  /\ ~deviceConnected
  /\ deviceConnected' = TRUE
  /\ bleLog' = <<"Client connected">>
  /\ UNCHANGED <<blePc, analogValue, valueStr, charValue, notified, notifies,
                 bleReads>>
  /\ UNCHANGED <<schedVars, p1Vars, textVars, tsVars>>

\* MyServerCallbacks::onDisconnect
onDisconnect ==
  /\ blePc # "setup"
  /\ deviceConnected
  /\ deviceConnected' = FALSE
  /\ bleLog' = <<"Client disconnected">>
  /\ UNCHANGED <<blePc, analogValue, valueStr, charValue, notified, notifies,
                 bleReads>>
  /\ UNCHANGED <<schedVars, p1Vars, textVars, tsVars>>

\* if (deviceConnected): an iteration that finds the flag false returns
bleCheck ==
  /\ blePc = "check"
  /\ notifies < MaxNotify
  /\ blePc' = IF deviceConnected THEN "read" ELSE "check"
  /\ UNCHANGED <<deviceConnected, analogValue, valueStr, charValue, notified,
                 notifies, bleReads, bleLog>>
  /\ UNCHANGED <<schedVars, p1Vars, textVars, tsVars>>

\* analogValue = analogRead(A0)
bleRead ==
  /\ blePc = "read"
  /\ analogValue' \in BleSamples
  /\ bleReads' = bleReads + 1
  /\ blePc' = "format"
  /\ UNCHANGED <<deviceConnected, valueStr, charValue, notified, notifies,
                 bleLog>>
  /\ UNCHANGED <<schedVars, p1Vars, textVars, tsVars>>

\* sprintf(valueStr, "%u", analogValue)
bleFormat ==
  /\ blePc = "format"
  /\ valueStr' = Decimal(analogValue)
  /\ blePc' = "setValue"
  /\ UNCHANGED <<deviceConnected, analogValue, charValue, notified, notifies,
                 bleReads, bleLog>>
  /\ UNCHANGED <<schedVars, p1Vars, textVars, tsVars>>

\* pCharacteristic->setValue((uint8_t*)valueStr, strlen(valueStr))
bleSetValue ==
  /\ blePc = "setValue"
  /\ charValue' = valueStr
  /\ blePc' = "notify"
  /\ UNCHANGED <<deviceConnected, analogValue, valueStr, notified, notifies,
                 bleReads, bleLog>>
  /\ UNCHANGED <<schedVars, p1Vars, textVars, tsVars>>

\* pCharacteristic->notify()
bleNotify ==
  /\ blePc = "notify"
  /\ notified' = charValue
  /\ notifies' = notifies + 1
  /\ blePc' = "print"
  /\ UNCHANGED <<deviceConnected, analogValue, valueStr, charValue, bleReads,
                 bleLog>>
  /\ UNCHANGED <<schedVars, p1Vars, textVars, tsVars>>

\* Serial.print("Sent value: "); Serial.println(valueStr)
blePrint ==
  /\ blePc = "print"
  /\ bleLog' = <<"Sent value: ", valueStr>>
  /\ blePc' = "delay"
  /\ UNCHANGED <<deviceConnected, analogValue, valueStr, charValue, notified,
                 notifies, bleReads>>
  /\ UNCHANGED <<schedVars, p1Vars, textVars, tsVars>>

\* delay(500), then loop() returns and is called again
bleDelay ==
  /\ blePc = "delay"
  /\ blePc' = "check"
  /\ UNCHANGED <<deviceConnected, analogValue, valueStr, charValue, notified,
                 notifies, bleReads, bleLog>>
  /\ UNCHANGED <<schedVars, p1Vars, textVars, tsVars>>

NextBLE ==
  \/ bleSetup
  \/ onConnect
  \/ onDisconnect
  \/ bleCheck
  \/ bleRead
  \/ bleFormat
  \/ bleSetValue
  \/ bleNotify
  \/ blePrint
  \/ bleDelay

SpecBLE == Init /\ [][NextBLE]_vars

----------------------------------------------------------------------------
(* part_001: fixed-interval loop with a busy-wait.  loop() never returns; a *)
(* step is one read of micros() together with the statements that follow   *)
(* it up to the next read, and the time those statements take is part of    *)
(* the delta of the next step.                                              *)

\* setup(): compute the interval
p1Setup ==
  /\ p1Pc = "setup"
  /\ p1Interval' = IntervalOf(P1Frequency)
  /\ p1Pc' = "enter"
  /\ UNCHANGED <<startTime, p1Micros, p1Value, p1Frame, p1Emitted, p1Real,
                 p1S0, p1EmitReal, p1Overrun, p1Waiting, p1Waited, p1Gap>>
  /\ UNCHANGED <<schedVars, bleVars, textVars, tsVars>>

\* loop() is entered: startTime = micros(), then the first pass through the
\* body reads and prints a sample
p1Enter ==
  /\ p1Pc = "enter"
  /\ \E delta \in Deltas, raw \in P1Samples :
       /\ p1Micros' = (p1Micros + delta) % Modulus
       /\ p1Real' = p1Real + delta
       /\ p1Gap' = delta
       /\ startTime' = (p1Micros + delta) % Modulus
       /\ p1S0' = p1Real + delta
       /\ p1EmitReal' = p1Real + delta
       /\ p1Value' = ToDouble(raw)
       /\ p1Frame' = PrintDouble(ToDouble(raw)) \o Newline
  /\ p1Emitted' = 1
  /\ p1Pc' = "wait"
  /\ UNCHANGED <<p1Interval, p1Overrun, p1Waiting, p1Waited>>
  /\ UNCHANGED <<schedVars, bleVars, textVars, tsVars>>

\* startTime on the unwrapped time axis: s0 plus one interval per iteration
P1StartReal == p1S0 + (p1Emitted - 1) * p1Interval

\* how late the last emission was against startTime's grid p1S0 + k * interval
P1Lag == p1EmitReal - (p1S0 + (p1Emitted - 1) * p1Interval)

\* one evaluation of the busy-wait condition, delta microseconds after the
\* previous read of micros(); when the interval is over, startTime is moved
\* on and the next pass through the body reads and prints a sample.  An
\* iteration whose first evaluation comes more than one interval after the
\* previous one has overrun by the difference.
p1Poll ==
  /\ p1Pc = "wait"
  /\ p1Emitted < MaxReads
  /\ \E delta \in Deltas, raw \in P1Samples :
       LET now == (p1Micros + delta) % Modulus
       IN /\ p1Real + delta <= MaxRealTime
          /\ p1Micros' = now
          /\ p1Real' = p1Real + delta
          /\ p1Gap' = delta
          /\ IF WaitOver(now, startTime, p1Interval)
               THEN /\ startTime' = AdvanceStart(startTime, p1Interval)
                    /\ p1Value' = ToDouble(raw)
                    /\ p1Frame' = PrintDouble(ToDouble(raw)) \o Newline
                    /\ p1Emitted' = p1Emitted + 1
                    /\ p1EmitReal' = p1Real + delta
                    /\ p1Overrun' = IF ~p1Waiting /\ delta - p1Interval > p1Overrun
                                      THEN delta - p1Interval
                                      ELSE p1Overrun
                    /\ p1Waited' = p1Waiting
                    /\ p1Waiting' = FALSE
               ELSE /\ p1Waiting' = TRUE
                    /\ UNCHANGED <<startTime, p1Value, p1Frame, p1Emitted,
                                   p1EmitReal, p1Overrun, p1Waited>>
  /\ UNCHANGED <<p1Pc, p1Interval, p1S0>>
  /\ UNCHANGED <<schedVars, bleVars, textVars, tsVars>>

Next001 == p1Setup \/ p1Enter \/ p1Poll

Spec001 == Init /\ [][Next001]_vars

\* an evaluation of the busy-wait condition at which the clock has moved on
p1Tick == p1Poll /\ p1Real' > p1Real

\* part_001 on a processor that keeps executing the loop and whose clock
\* keeps advancing
Spec001Fair == Init /\ [][Next001]_vars /\ WF_vars(p1Tick)

----------------------------------------------------------------------------
(* The plain text-line loops: part_000 and MCU/XIAO/XIAO.ino.  Their delays *)
(* pace the loop and touch no state.                                        *)

\* part_000 setup(): Serial.begin, delay(1000)
p0Setup ==
  /\ p0Pc = "setup"
  /\ p0Pc' = "loop"
  /\ UNCHANGED <<p0Value, p0Frame, xPc, eegValue, xFrame>>
  /\ UNCHANGED <<schedVars, bleVars, p1Vars, tsVars>>

\* part_000 loop(): analogRead(3), Serial.println(int), delayMicroseconds(10)
p0Loop ==
  /\ p0Pc = "loop"
  /\ \E raw \in TextSamples :
       /\ p0Value' = raw
       /\ p0Frame' = PrintInt(raw) \o Newline
  /\ UNCHANGED <<p0Pc, xPc, eegValue, xFrame>>
  /\ UNCHANGED <<schedVars, bleVars, p1Vars, tsVars>>

\* XIAO.ino setup(): Serial.begin, wait for Serial, pinMode
xiaoSetup ==
  /\ xPc = "setup"
  /\ xPc' = "loop"
  /\ UNCHANGED <<p0Pc, p0Value, p0Frame, eegValue, xFrame>>
  /\ UNCHANGED <<schedVars, bleVars, p1Vars, tsVars>>

\* XIAO.ino loop(): analogRead(eegPin), Serial.println(int), delay(1)
xiaoLoop ==
  /\ xPc = "loop"
  /\ \E raw \in TextSamples :
       /\ eegValue' = raw
       /\ xFrame' = PrintInt(raw) \o Newline
  /\ UNCHANGED <<xPc, p0Pc, p0Value, p0Frame>>
  /\ UNCHANGED <<schedVars, bleVars, p1Vars, tsVars>>

\* the three text-line sketches, each running on its own board
NextText ==
  \/ p0Setup
  \/ p0Loop
  \/ xiaoSetup
  \/ xiaoLoop
  \/ p1Setup
  \/ p1Enter
  \/ p1Poll

SpecText == Init /\ [][NextText]_vars

----------------------------------------------------------------------------
(* The timestamped text-line loop (part_002 lines 18-36).  A step is one    *)
(* statement of loop(), or the three prints that make up a line; it takes   *)
(* one of TsDeltas microseconds, and delay() one of DelayTimes.             *)

\* setup(): Serial.begin, pinMode
tsSetup ==
  /\ tsPc = "setup"
  /\ \E delta \in TsDeltas : tsReal' = tsReal + delta
  /\ tsPc' = "stamp"
  /\ UNCHANGED <<timestamp, tsValue, tsFrame, tsOrder, tsLastStamp,
                 tsPrevStamp, tsWrapped>>
  /\ UNCHANGED <<schedVars, bleVars, p1Vars, textVars>>

\* unsigned long timestamp = millis()
tsStamp ==
  /\ tsPc = "stamp"
  /\ \E delta \in TsDeltas :
       /\ tsReal + delta <= MaxTsReal
       /\ tsReal' = tsReal + delta
       /\ timestamp' = Millis(tsReal + delta)
       /\ tsWrapped' = ((tsReal + delta) \div 1000 >= Modulus)
  /\ tsOrder' = <<"millis">>
  /\ tsPc' = "read"
  /\ UNCHANGED <<tsValue, tsFrame, tsLastStamp, tsPrevStamp>>
  /\ UNCHANGED <<schedVars, bleVars, p1Vars, textVars>>

\* int analogValue = analogRead(eegPin)
tsRead ==
  /\ tsPc = "read"
  /\ \E delta \in TsDeltas, raw \in TsSamples :
       /\ tsReal' = tsReal + delta
       /\ tsValue' = raw
  /\ tsOrder' = Append(tsOrder, "analogRead")
  /\ tsPc' = "print"
  /\ UNCHANGED <<timestamp, tsFrame, tsLastStamp, tsPrevStamp, tsWrapped>>
  /\ UNCHANGED <<schedVars, bleVars, p1Vars, textVars>>

\* Serial.print(timestamp); Serial.print(","); Serial.println(analogValue)
tsPrint ==
  /\ tsPc = "print"
  /\ \E delta \in TsDeltas : tsReal' = tsReal + delta
  /\ tsFrame' = Decimal(timestamp) \o <<44>> \o PrintInt(tsValue) \o Newline
  /\ tsOrder' = Append(tsOrder, "frame")
  /\ tsPrevStamp' = tsLastStamp
  /\ tsLastStamp' = timestamp
  /\ tsPc' = "delay"
  /\ UNCHANGED <<timestamp, tsValue, tsWrapped>>
  /\ UNCHANGED <<schedVars, bleVars, p1Vars, textVars>>

\* delay(sampleInterval); loop() returns and is called again
tsDelay ==
  /\ tsPc = "delay"
  /\ \E delta \in DelayTimes(sampleInterval) : tsReal' = tsReal + delta
  /\ tsPc' = "stamp"
  /\ UNCHANGED <<timestamp, tsValue, tsFrame, tsOrder, tsLastStamp,
                 tsPrevStamp, tsWrapped>>
  /\ UNCHANGED <<schedVars, bleVars, p1Vars, textVars>>

NextTs == tsSetup \/ tsStamp \/ tsRead \/ tsPrint \/ tsDelay

SpecTs == Init /\ [][NextTs]_vars

----------------------------------------------------------------------------
(* Properties of the drift-compensated scheduler *)

\* the receiver's low | (high << 8), bit by bit
RECURSIVE BitOr(_, _)
BitOr(a, b) ==
  IF a = 0 THEN b
  ELSE IF b = 0 THEN a
  ELSE (IF a % 2 = 1 \/ b % 2 = 1 THEN 1 ELSE 0) + 2 * BitOr(a \div 2, b \div 2)

Decode(frame) == BitOr(frame[1], frame[2] * 256)

\* deadlines of the grid deadline, deadline + interval, ... that lie at or
\* before the clock reading of the last iteration, the one consumed excluded
MissedDeadlines == (currentTime - deadline) \div samplingInterval

\* C1: for polls with non-decreasing clock readings (the clock has not
\* wrapped), a poll emits at most one sample, and an emission triggered by
\* deadline d leaves nextSampleTime strictly greater than d.
C1_NoDuplicateEmission ==
  [][realTime' < Modulus =>
       /\ reads' \in {reads, reads + 1}
       /\ (reads' = reads + 1 => nextSampleTime' > nextSampleTime)]_vars

\* C2: a poll that reads a clock value below nextSampleTime writes nothing
\* and leaves nextSampleTime (and every counter) as it was; a poll that reads
\* a value at or above it reads one sample and writes one two-byte frame; in
\* both cases the iteration is over in that one step.
C2_PollContract ==
  [][pc = "loop" =>
       /\ pc' = "loop"
       /\ currentTime' = micros'
       /\ IF micros' < nextSampleTime
            THEN /\ action' = "not due"
                 /\ lastFrame' = <<>>
                 /\ written' = written
                 /\ reads' = reads
                 /\ nextSampleTime' = nextSampleTime
            ELSE /\ action' = "due"
                 /\ Len(lastFrame') = 2
                 /\ written' = written + 2
                 /\ reads' = reads + 1]_vars

\* C2 witness: a poll found nothing due after samples had been emitted
C2_Witness ==
  action = "not due" /\ currentTime < nextSampleTime /\ reads >= 2

\* C3 as stated: on a due poll the deadline becomes d + interval, unless the
\* clock is past d + 2 * interval, and only then now + interval.
C3_ResyncAfterTwoIntervals ==
  action = "due" =>
    nextSampleTime =
      IF currentTime > deadline + 2 * samplingInterval
        THEN (currentTime + samplingInterval) % Modulus
        ELSE (deadline + samplingInterval) % Modulus

\* C3 as amended: on a due poll the deadline becomes d + interval, unless
\* the clock is past d + interval (by any amount), and then now + interval;
\* sums are taken modulo 2^w and the comparison is the unsigned one.
C3_ResyncAfterOneInterval ==
  action = "due" =>
    nextSampleTime =
      IF currentTime > (deadline + samplingInterval) % Modulus
        THEN (currentTime + samplingInterval) % Modulus
        ELSE (deadline + samplingInterval) % Modulus

\* C3 witness: a due poll later than d + interval by at most one interval,
\* which resynchronized all the same
C3_Witness ==
  /\ action = "due"
  /\ currentTime > deadline + samplingInterval
  /\ currentTime <= deadline + 2 * samplingInterval
  /\ nextSampleTime = currentTime + samplingInterval

\* C4 as stated: a poll that arrives with deadlines missed (the clock past
\* d + interval) emits one frame, sets the deadline to now + interval, and
\* drops at most one sample.
C4_AtMostOneDropped ==
  (action = "due" /\ currentTime > deadline + samplingInterval) =>
    /\ Len(lastFrame) = 2
    /\ nextSampleTime = (currentTime + samplingInterval) % Modulus
    /\ MissedDeadlines <= 1

\* C4 as amended: a poll that arrives with the clock past d + interval emits
\* exactly one frame and sets the deadline to now + interval (modulo 2^w),
\* never to a missed deadline; the floor((now - d) / interval) deadlines it
\* skips are not limited to one.
C4_OverrunResyncs ==
  [][(pc = "loop" /\ micros' >= nextSampleTime
        /\ micros' > (nextSampleTime + samplingInterval) % Modulus) =>
       /\ reads' = reads + 1
       /\ written' = written + 2
       /\ Len(lastFrame') = 2
       /\ nextSampleTime' = (micros' + samplingInterval) % Modulus]_vars

\* C4 witness: one poll skipped two deadlines and resynchronized
C4_Witness ==
  /\ action = "due"
  /\ MissedDeadlines >= 2
  /\ Len(lastFrame) = 2
  /\ nextSampleTime = currentTime + samplingInterval

\* C5: the cadence survives a wraparound of the clock or of nextSampleTime:
\* a poll arriving more than two intervals after the last emission emits
\* (no stall), and three consecutive emissions span at least one interval
\* (no emission on every poll).
C5_CadenceAcrossWrap ==
  /\ (action = "not due" /\ emitTimes # <<>>) =>
        realTime - emitTimes[Len(emitTimes)] <= 2 * samplingInterval
  /\ Len(emitTimes) = 3 => emitTimes[3] - emitTimes[1] >= samplingInterval

\* C6: a configuration with a zero or negative frequency, or one that yields
\* samplingInterval = 0, is rejected at startup: the sampling loop is entered,
\* and samples are emitted, only with a positive frequency and interval.
C6_InvalidConfigRejected ==
  (pc = "loop" \/ reads > 0) => (samplingFrequency > 0 /\ samplingInterval > 0)

\* C7: every due poll moves nextSampleTime up by at least samplingInterval,
\* and by exactly samplingInterval when the poll is not an overrun (the clock
\* is no later than one interval after the deadline).
C7_DeadlineProgression ==
  action = "due" =>
    /\ nextSampleTime >= deadline + samplingInterval
    /\ (currentTime <= deadline + samplingInterval =>
          nextSampleTime = deadline + samplingInterval)

\* deadlines of the ideal grid firstDeadline + k * interval that have come
\* due by now, while the clock has not wrapped
IdealCount == (realTime - firstDeadline) \div samplingInterval + 1

C9_BinaryRoundTrip ==
  /\ written = 2 * reads
  /\ action = "due" =>
        /\ Len(lastFrame) = 2
        /\ \A i \in 1..2 : lastFrame[i] \in 0..255
        /\ lastFrame[1] = value % 256
        /\ lastFrame[2] = value \div 256
        /\ Decode(lastFrame) = value

\* C9 witness: the sample 1023 went out as FF 03, as the second frame or later
C9_Witness ==
  action = "due" /\ value = 1023 /\ lastFrame = <<255, 3>> /\ written >= 4

\* C13: while the clock has not wrapped, right after a due poll
\* now <= nextSampleTime <= now + samplingInterval (at most one deadline is
\* pending), and any three consecutive emissions span at least one interval.
C13_NoBacklog ==
  realTime < Modulus =>
    /\ action = "due" =>
          /\ currentTime <= nextSampleTime
          /\ nextSampleTime <= currentTime + samplingInterval
    /\ Len(emitTimes) = 3 => emitTimes[3] - emitTimes[1] >= samplingInterval

----------------------------------------------------------------------------
(* Properties of the BLE notifier *)

\* C10: no sample is read and notify() is never invoked while deviceConnected
\* is false, and an iteration that finds the flag false changes nothing.
C10_GatedByConnection ==
  [][/\ (bleReads' # bleReads \/ notifies' # notifies) => deviceConnected
     /\ (blePc = "check" /\ ~deviceConnected /\ deviceConnected' = deviceConnected)
          => UNCHANGED bleVars]_vars

----------------------------------------------------------------------------
(* Properties of the text-line sketches *)

\* the number a string of decimal digits denotes
RECURSIVE DigitsValue(_)
DigitsValue(str) ==
  IF str = <<>> THEN 0
  ELSE 10 * DigitsValue(SubSeq(str, 1, Len(str) - 1)) + (str[Len(str)] - 48)

\* the line is the decimal digits of n, then CR LF, and nothing else
IsDigitsLine(line, n) ==
  /\ Len(line) >= 3
  /\ SubSeq(line, Len(line) - 1, Len(line)) = Newline
  /\ \A i \in 1..(Len(line) - 2) : line[i] \in 48..57
  /\ DigitsValue(SubSeq(line, 1, Len(line) - 2)) = n

\* C11: in every text-line sketch (part_000, XIAO.ino, part_001) each line
\* written is exactly the decimal digits of the integer sample followed by
\* the line terminator: no sign, no decimal point, no fractional digits.
C11_TextLineFrames ==
  /\ p0Frame # <<>> => IsDigitsLine(p0Frame, p0Value)
  /\ xFrame # <<>> => IsDigitsLine(xFrame, eegValue)
  /\ p1Frame # <<>> => IsDigitsLine(p1Frame, p1Value \div 100)

\* what does hold of part_000 and XIAO.ino, which print an int
TextLineFramesOfInts ==
  /\ p0Frame # <<>> => IsDigitsLine(p0Frame, p0Value)
  /\ xFrame # <<>> => IsDigitsLine(xFrame, eegValue)

----------------------------------------------------------------------------
(* Properties of part_001 *)

\* C12 as stated: once an iteration has overrun by L microseconds, every
\* later sample is emitted at least L after its scheduled instant
\* s0 + k * interval.
C12_PermanentLag ==
  p1Emitted >= 2 => P1Lag >= p1Overrun

\* C12, amended: startTime advances by exactly one interval per iteration and
\* is never reset to the clock, so it stays on the grid s0 + k * interval
\* (modulo the clock width); the lag of an overrun is not permanent, because a
\* sample the busy-wait had to wait for is emitted less than one polling gap
\* after its scheduled instant (the clock being less than one wrap past
\* startTime).  ~p1Waiting holds of the state an emission leaves, where
\* p1Gap is the gap of the poll that ended the wait.
C12_GridKeptLagRecovered ==
  p1Emitted >= 1 =>
    /\ startTime = (p1S0 + (p1Emitted - 1) * p1Interval) % Modulus
    /\ (/\ p1Emitted >= 2
        /\ ~p1Waiting
        /\ p1Waited
        /\ P1Lag + p1Interval < Modulus) => P1Lag < p1Gap

\* an iteration overran by 300, and a later sample that was waited for is
\* emitted on schedule
C12_Witness ==
  /\ p1Overrun = 300
  /\ p1Emitted >= 3
  /\ p1Waited
  /\ P1Lag = 0
  /\ startTime = (p1S0 + (p1Emitted - 1) * p1Interval) % Modulus

\* C14: the busy-wait ends at the first reading of the clock that is at least
\* one interval past startTime and at no earlier one, also when micros() has
\* wrapped and startTime has not, as long as the clock is less than one wrap
\* past startTime; and with the clock advancing a wait always ends (within
\* the horizon of the run).
C14_BusyWaitExits ==
  /\ [][(p1Pc = "wait" /\ p1Real' - P1StartReal < Modulus) =>
          ((p1Emitted' = p1Emitted + 1) <=>
             (p1Real' - P1StartReal >= p1Interval))]_vars
  /\ (p1Pc = "wait" /\ p1Waiting) ~>
        (~p1Waiting \/ p1Real + p1Interval > MaxRealTime)

\* a wait that began before the clock wrapped has ended at a reading after the
\* wrap: the reading is below one interval, so startTime was above it
C14_Witness ==
  /\ p1Emitted >= 2
  /\ ~p1Waiting
  /\ p1Waited
  /\ p1Real >= Modulus
  /\ p1Micros < p1Interval
  /\ p1Real - p1Gap < Modulus
  /\ P1Lag < p1Gap

\* C15: the (k+1)-th sample is never emitted before s0 + k * interval, and the
\* first sample is emitted at s0, with no wait before it.
C15_NeverAhead ==
  /\ p1Emitted >= 1 => p1EmitReal >= p1S0 + (p1Emitted - 1) * p1Interval
  /\ p1Emitted = 1 => (p1EmitReal = p1S0 /\ ~p1Waited)

\* after iterations of different costs, one of them an overrun, a sample is
\* emitted exactly at its scheduled instant
C15_Witness ==
  /\ p1Emitted >= 4
  /\ p1Overrun > 0
  /\ p1EmitReal = p1S0 + (p1Emitted - 1) * p1Interval
  /\ p1Real = p1EmitReal

----------------------------------------------------------------------------
(* Properties of the timestamped text-line sketch *)

\* position of the separator ',' in a line, 0 when there is none
CommaAt(line) ==
  IF \E i \in 1..Len(line) : line[i] = 44
    THEN CHOOSE i \in 1..Len(line) :
           line[i] = 44 /\ \A j \in 1..(i - 1) : line[j] # 44
    ELSE 0

\* the line is '<stamp>,<val>' in decimal digits followed by CR LF
IsStampedLine(line, stamp, val) ==
  LET c == CommaAt(line)
  IN /\ c >= 2
     /\ \A i \in 1..(c - 1) : line[i] \in 48..57
     /\ DigitsValue(SubSeq(line, 1, c - 1)) = stamp
     /\ IsDigitsLine(SubSeq(line, c + 1, Len(line)), val)

\* C16: an iteration of loop() reads millis(), then the sample, then writes
\* exactly one frame '<timestamp_ms>,<value>' and the line terminator; and
\* the timestamp of a frame is greater than that of the frame before it as
\* long as millis() has not wrapped.
C16_StampedFrames ==
  /\ tsPc \in {"delay", "stamp"} /\ tsOrder # <<>> =>
        /\ tsOrder = <<"millis", "analogRead", "frame">>
        /\ IsStampedLine(tsFrame, timestamp, tsValue)
        /\ tsLastStamp = timestamp
        /\ (tsPrevStamp >= 0 /\ ~tsWrapped) => tsLastStamp > tsPrevStamp
  /\ tsPc \in {"read", "print"} => Len(tsOrder) < 3

\* a frame has followed another, both stamped before millis() wrapped, and
\* the iteration took no longer than the delay
C16_Witness ==
  /\ tsPc = "delay"
  /\ tsPrevStamp >= 0
  /\ ~tsWrapped
  /\ tsLastStamp = tsPrevStamp + sampleInterval
  /\ tsValue = 1023
  /\ tsFrame = Decimal(tsLastStamp) \o <<44, 49, 48, 50, 51, 13, 10>>

\* the proviso is needed: across the wrap of millis() the timestamp falls
C16_StampFallsAtWrap ==
  /\ tsPc = "delay"
  /\ tsWrapped
  /\ tsPrevStamp > tsLastStamp

====
